---------------------------- MODULE Spec2Model ----------------------------
(***************************************************************************)
(* A model of src/rca/search_root_cause.py: the retrieval pipeline that    *)
(* searches RCA documents for a phrase, scores and dates the matching      *)
(* documents and selects a subset under a word budget.                     *)
(*                                                                         *)
(* Text is a sequence of one-character strings, so that normalisation,     *)
(* case folding, substring search and word splitting are computed as the   *)
(* Python code computes them.  Scores are fixed-point numbers in           *)
(* thousandths (1000 is the score 1.0).                                    *)
(***************************************************************************)
EXTENDS Integers, Sequences, FiniteSets, TLC

VARIABLES
    pc,             \* position of the running function
    argv,           \* sys.argv of the search command
    nfiles,         \* number of *.json entries os.listdir returned
    idx,            \* 1-based position of process_json_files' file loop
    data,           \* the corpus entry the loop is processing
    now,            \* last reading of the clock, [day, sec]
    search_text,    \* the query
    matches,        \* process_json_files' result list / selector's input
    max_words,      \* the selector's budget
    sorted_matches, \* select_best_documents' sorted list
    sel_i,          \* 1-based position of the selector's loop
    selected,       \* select_best_documents' output list
    total_words,    \* select_best_documents' running total
    exit_code,      \* process exit status, -1 while running
    out,            \* the messages main printed
    section_text,   \* argument of the function under test
    result          \* value returned by the function under test

vars == <<pc, argv, nfiles, idx, data, now, search_text, matches, max_words,
          sorted_matches, sel_i, selected, total_words, exit_code, out,
          section_text, result>>

-----------------------------------------------------------------------------
(* Characters and strings *)

UpperChars == <<"A","B","C","D","E","F","G","H","I","J","K","L","M",
                "N","O","P","Q","R","S","T","U","V","W","X","Y","Z">>
LowerChars == <<"a","b","c","d","e","f","g","h","i","j","k","l","m",
                "n","o","p","q","r","s","t","u","v","w","x","y","z">>
DigitChars == <<"0","1","2","3","4","5","6","7","8","9">>

Range(s) == {s[i] : i \in DOMAIN s}

IsUpper(c) == c \in Range(UpperChars)
IsLetter(c) == c \in Range(UpperChars) \cup Range(LowerChars)
IsDigit(c) == c \in Range(DigitChars)
\* \w of the regex engine, for the characters the model uses
IsWordChar(c) == IsLetter(c) \/ IsDigit(c) \/ c = "_"
\* what str.split() and the regex \s treat as whitespace
IsSpace(c) == c \in {" ", "\t", "\n", "\r"}
IsHex(c) == IsDigit(c) \/ c \in {"a","b","c","d","e","f","A","B","C","D","E","F"}

LowerChar(c) ==
    IF IsUpper(c) THEN LowerChars[CHOOSE i \in 1..26 : UpperChars[i] = c] ELSE c

\* str.lower()
Lower(s) == [i \in 1..Len(s) |-> LowerChar(s[i])]

DigitVal(c) == (CHOOSE i \in 1..10 : DigitChars[i] = c) - 1

SetMin(S) == CHOOSE x \in S : \A y \in S : x <= y
SetMax(S) == CHOOSE x \in S : \A y \in S : x >= y
Min2(a, b) == IF a <= b THEN a ELSE b
Max2(a, b) == IF a >= b THEN a ELSE b

\* s[i:j] of Python with 0-based i, j already clipped to 0..len
Slice(s, i, j) == IF j <= i THEN <<>> ELSE SubSeq(s, i + 1, j)

\* The maximal runs of s[lo..hi] (lo <= hi) that hold no delimiter, in order;
\* delim[i] tells whether s[i] is a delimiter.  Computed by halving the range:
\* a run that crosses the middle is put together from its two parts.
RECURSIVE RunsIn(_, _, _, _)
RunsIn(s, delim, lo, hi) ==
    IF lo = hi THEN (IF delim[lo] THEN <<>> ELSE <<(<<s[lo]>>)>>)
    ELSE LET mid == (lo + hi) \div 2
             L == RunsIn(s, delim, lo, mid)
             R == RunsIn(s, delim, mid + 1, hi)
         IN IF ~delim[mid] /\ ~delim[mid + 1]
            THEN SubSeq(L, 1, Len(L) - 1) \o <<L[Len(L)] \o R[1]>> \o Tail(R)
            ELSE L \o R

Runs(s, delim) == IF s = <<>> THEN <<>> ELSE RunsIn(s, delim, 1, Len(s))

\* str.split(): the maximal runs of non-whitespace characters
Split(s) == Runs(s, [i \in 1..Len(s) |-> IsSpace(s[i])])

\* sep.join(words)
RECURSIVE JoinIn(_, _, _, _)
JoinIn(words, sep, lo, hi) ==
    IF lo = hi THEN words[lo]
    ELSE LET mid == (lo + hi) \div 2
         IN JoinIn(words, sep, lo, mid) \o sep \o JoinIn(words, sep, mid + 1, hi)

Join(words, sep) ==
    IF words = <<>> THEN <<>> ELSE JoinIn(words, sep, 1, Len(words))

\* a in b, for strings
IsSubstring(a, b) ==
    \E i \in 0..(Len(b) - Len(a)) : \A j \in 1..Len(a) : b[i + j] = a[j]

StartsWithAt(s, i, p) ==
    /\ i + Len(p) - 1 <= Len(s)
    /\ \A j \in 1..Len(p) : s[i + j - 1] = p[j]

-----------------------------------------------------------------------------
(* clean_text *)

INLINE_MARK == <<"I","N","L","I","N","E">>

\* first index at or after i that holds no whitespace (Len(s)+1 if none)
RECURSIVE SkipSpaces(_, _)
SkipSpaces(s, i) ==
    IF i <= Len(s) /\ IsSpace(s[i]) THEN SkipSpaces(s, i + 1) ELSE i

\* MarkerEnd for the pattern  #[a-fA-F0-9]{6}\s*INLINE : no line break needed
MarkerEnd_AnySpace(s, i) ==
    IF /\ i + 6 <= Len(s)
       /\ s[i] = "#"
       /\ \A j \in 1..6 : IsHex(s[i + j])
    THEN LET e == SkipSpaces(s, i + 7)
         IN IF StartsWithAt(s, e, INLINE_MARK) THEN e + 6 ELSE 0
    ELSE 0

\* The index after a match of  #[a-fA-F0-9]{6}\s*\nINLINE  starting at i,
\* or 0.  The greedy \s* gives back characters until \n precedes INLINE, so
\* the whitespace run before INLINE must be non-empty and end in a newline.
MarkerEnd(s, i) ==
    IF /\ i + 6 <= Len(s)
       /\ s[i] = "#"
       /\ \A j \in 1..6 : IsHex(s[i + j])
    THEN LET e == SkipSpaces(s, i + 7)
         IN IF e > i + 7 /\ s[e - 1] = "\n" /\ StartsWithAt(s, e, INLINE_MARK)
            THEN e + 6 ELSE 0
    ELSE 0

\* re.sub(marker, '', text): every match removed.  A match holds "#" only as
\* its first character, so no two matches overlap and each one is removed.
RemoveMarkers(s) ==
    LET starts == {i \in 1..Len(s) : s[i] = "#" /\ MarkerEnd(s, i) # 0}
        removed == [p \in 1..Len(s) |->
                       \E i \in starts : i <= p /\ p < MarkerEnd(s, i)]
    IN IF starts = {} THEN s ELSE Join(Runs(s, removed), <<>>)

clean_text(text) == Join(Split(RemoveMarkers(text)), <<" ">>)

-----------------------------------------------------------------------------
(* search_text_in_section *)

\* words of context kept on each side of the matched phrase
ContextWindow == 10

Ellipsis == <<".", ".", ".">>

NoMatch == [found |-> FALSE, context |-> <<>>]

\* the loop  for i in range(len(words) - len(search_words) + 1)
\* returns at the first i whose words join to search_terms
FirstAligned(words, search_words, search_terms) ==
    LET k == Len(search_words)
        hits == {i \in 0..(Len(words) - k) :
                    Join(Slice(words, i, i + k), <<" ">>) = search_terms}
    IN IF hits = {} THEN -1 ELSE SetMin(hits)

\* ContextOf with the end of the window counted from the start of the phrase
ContextOf_FromPhraseStart(words, i, k) ==
    LET start == Max2(0, i - ContextWindow)
        end == Min2(Len(words), i + ContextWindow)
    IN Ellipsis \o Join(Slice(words, start, end), <<" ">>) \o Ellipsis

ContextOf(words, i, k) ==
    LET start == Max2(0, i - ContextWindow)
        end == Min2(Len(words), i + k + ContextWindow)
    IN Ellipsis \o Join(Slice(words, start, end), <<" ">>) \o Ellipsis

search_text_in_section(sec, query) ==
    IF sec = <<>> \/ query = <<>> THEN NoMatch
    ELSE LET clean_section == Lower(clean_text(sec))
             search_terms == Lower(clean_text(query))
         IN IF IsSubstring(search_terms, clean_section)
            THEN LET words == Split(clean_section)
                     search_words == Split(search_terms)
                     i == FirstAligned(words, search_words, search_terms)
                 IN IF i >= 0
                    THEN [found |-> TRUE,
                          context |-> ContextOf(words, i, Len(search_words))]
                    ELSE NoMatch
            ELSE NoMatch

-----------------------------------------------------------------------------
(* calculate_text_quality_score *)

RECURSIVE SumIn(_, _, _)
SumIn(xs, lo, hi) ==
    IF lo = hi THEN xs[lo]
    ELSE LET mid == (lo + hi) \div 2
         IN SumIn(xs, lo, mid) + SumIn(xs, mid + 1, hi)

SumSeq(xs) == IF xs = <<>> THEN 0 ELSE SumIn(xs, 1, Len(xs))

\* floor of the square root, by bisection on lo..hi
RECURSIVE IsqrtIn(_, _, _)
IsqrtIn(x, lo, hi) ==
    IF lo >= hi THEN lo
    ELSE LET mid == (lo + hi + 1) \div 2
         IN IF mid * mid <= x THEN IsqrtIn(x, mid, hi) ELSE IsqrtIn(x, lo, mid - 1)

Isqrt(x) == IsqrtIn(x, 0, Min2(x, 46340))

\* np.std(xs), the population standard deviation, in hundredths rounded down:
\* std = sqrt(n * sum(x^2) - sum(x)^2) / n
StdCenti(xs) ==
    LET n == Len(xs)
        sq == [i \in 1..n |-> xs[i] * xs[i]]
        num == n * SumSeq(sq) - SumSeq(xs) * SumSeq(xs)
    IN Isqrt(10000 * num) \div n

\* re.split(r'[.!?]+', text): the pieces between runs of . ! ?
IsSentenceEnd(c) == c \in {".", "!", "?"}

\* sentences = [s.strip() for s in re.split(...) if s.strip()]: the pieces
\* between runs of . ! ? that hold a word (the empty pieces re.split returns
\* are dropped by the filter).  A sentence is kept as its words, since only
\* the number of its words is used.
Sentences(text) ==
    LET pieces == Runs(text, [i \in 1..Len(text) |-> IsSentenceEnd(text[i])])
    IN SelectSeq([i \in 1..Len(pieces) |-> Split(pieces[i])],
                 LAMBDA ws : ws # <<>>)

technical_terms ==
    {<<"a","w","s">>,
     <<"a","p","i">>,
     <<"s","e","r","v","i","c","e">>,
     <<"s","y","s","t","e","m">>,
     <<"e","r","r","o","r">>,
     <<"f","a","i","l","u","r","e">>,
     <<"i","m","p","a","c","t">>,
     <<"r","e","s","o","l","u","t","i","o","n">>,
     <<"m","e","t","r","i","c","s">>,
     <<"d","a","t","a">>,
     <<"c","o","n","f","i","g","u","r","a","t","i","o","n">>,
     <<"o","u","t","a","g","e">>,
     <<"i","n","c","i","d","e","n","t">>,
     <<"r","e","g","i","o","n">>,
     <<"s","e","r","v","e","r">>,
     <<"d","a","t","a","b","a","s","e">>,
     <<"n","e","t","w","o","r","k">>,
     <<"i","n","f","r","a","s","t","r","u","c","t","u","r","e">>,
     <<"d","e","p","l","o","y","m","e","n","t">>,
     <<"m","o","n","i","t","o","r","i","n","g">>}

\* 0.3 * min(1.0, sentence_length_var / 10), in thousandths
SentenceLengthPart(sentences) ==
    LET sentence_lengths == [i \in 1..Len(sentences) |-> Len(sentences[i])]
        sentence_length_var ==
            IF Len(sentence_lengths) > 1 THEN StdCenti(sentence_lengths) ELSE 0
    IN Min2(300, (3 * sentence_length_var) \div 10)

\* 0.2 * min(1.0, word_length_var / 3), in thousandths
WordLengthPart(words) ==
    LET word_lengths == [i \in 1..Len(words) |-> Len(words[i])]
        word_length_var ==
            IF Len(word_lengths) > 1 THEN StdCenti(word_lengths) ELSE 0
    IN Min2(200, (2 * word_length_var) \div 3)

\* 0.3 * info_density, in thousandths
InfoDensityPart(words) ==
    IF words = <<>> THEN 0
    ELSE (300 * Cardinality(Range(words))) \div Len(words)

\* TechTermPart without the cap min(1.0, .)
TechTermPart_Uncapped(words) ==
    LET tech_term_count ==
            Cardinality({i \in 1..Len(words) : Lower(words[i]) \in technical_terms})
    IN IF words = <<>> THEN 0
       ELSE (1000 * tech_term_count) \div Len(words)

\* 0.2 * min(1.0, tech_term_ratio * 5), in thousandths
TechTermPart(words) ==
    LET tech_term_count ==
            Cardinality({i \in 1..Len(words) : Lower(words[i]) \in technical_terms})
    IN IF words = <<>> THEN 0
       ELSE Min2(200, (1000 * tech_term_count) \div Len(words))

calculate_text_quality_score(raw) ==
    IF raw = <<>> THEN 0
    ELSE LET text == clean_text(raw)
             sentences == Sentences(text)
             words == Split(text)
         IN IF sentences = <<>> THEN 0
            ELSE SentenceLengthPart(sentences) + WordLengthPart(words)
                 + InfoDensityPart(words) + TechTermPart(words)

-----------------------------------------------------------------------------
(* extract_dates, get_newest_date, is_within_two_years *)

\* A date is a record [year, month, day]: a datetime at midnight.

MonthNames ==
    <<(<<"j","a","n">>), <<"f","e","b">>, <<"m","a","r">>, <<"a","p","r">>,
      <<"m","a","y">>, <<"j","u","n">>, <<"j","u","l">>, <<"a","u","g">>,
      <<"s","e","p">>, <<"o","c","t">>, <<"n","o","v">>, <<"d","e","c">>>>

WeekdayNames ==
    {<<"m","o","n">>, <<"t","u","e">>, <<"w","e","d">>, <<"t","h","u">>,
     <<"f","r","i">>, <<"s","a","t">>, <<"s","u","n">>}

\* \b before s[p] (p may be Len(s) + 1): exactly one side is a word character
WordBoundary(s, p) ==
    (p > 1 /\ p - 1 <= Len(s) /\ IsWordChar(s[p - 1]))
        # (p >= 1 /\ p <= Len(s) /\ IsWordChar(s[p]))

DigitsAt(s, p, n) ==
    /\ p >= 1
    /\ p + n - 1 <= Len(s)
    /\ \A j \in 0..(n - 1) : IsDigit(s[p + j])

CharAt(s, p, c) == p >= 1 /\ p <= Len(s) /\ s[p] = c

\* int() of the n digits at p
RECURSIVE NumberAt(_, _, _)
NumberAt(s, p, n) ==
    IF n = 0 THEN 0
    ELSE 10 * NumberAt(s, p, n - 1) + DigitVal(s[p + n - 1])

\* months_map of the month name matched at p under re.IGNORECASE, or 0
MonthAt(s, p) ==
    IF p >= 1 /\ p + 2 <= Len(s)
          /\ \E m \in 1..12 : Lower(SubSeq(s, p, p + 2)) = MonthNames[m]
    THEN CHOOSE m \in 1..12 : Lower(SubSeq(s, p, p + 2)) = MonthNames[m]
    ELSE 0

WeekdayAt(s, p) ==
    /\ p >= 1
    /\ p + 2 <= Len(s)
    /\ Lower(SubSeq(s, p, p + 2)) \in WeekdayNames

\* the end of [a-z]* from p under re.IGNORECASE: first index holding no letter
RECURSIVE LettersEnd(_, _)
LettersEnd(s, p) ==
    IF p <= Len(s) /\ IsLetter(s[p]) THEN LettersEnd(s, p + 1) ELSE p

IsLeap(y) == (y % 4 = 0 /\ y % 100 # 0) \/ y % 400 = 0

DaysInMonth(y, m) ==
    IF m = 2 THEN (IF IsLeap(y) THEN 29 ELSE 28)
    ELSE IF m \in {4, 6, 9, 11} THEN 30 ELSE 31

\* whether datetime(y, m, d) / strptime accept the numbers (else ValueError)
ValidDate(y, m, d) ==
    /\ y >= 1 /\ y <= 9999
    /\ m >= 1 /\ m <= 12
    /\ d >= 1 /\ d <= DaysInMonth(y, m)

NoDate == [year |-> 0, month |-> 0, day |-> 0]

\* pattern 1  \b(\d{4}-\d{2}-\d{2})\b  matched at p and parsed with
\* strptime(.., "%Y-%m-%d"):  <<date>>, or <<>> for no match or a ValueError
IsoAt(s, p) ==
    IF /\ WordBoundary(s, p)
       /\ DigitsAt(s, p, 4) /\ CharAt(s, p + 4, "-")
       /\ DigitsAt(s, p + 5, 2) /\ CharAt(s, p + 7, "-")
       /\ DigitsAt(s, p + 8, 2)
       /\ WordBoundary(s, p + 10)
    THEN LET y == NumberAt(s, p, 4)
             m == NumberAt(s, p + 5, 2)
             d == NumberAt(s, p + 8, 2)
         IN IF ValidDate(y, m, d)
            THEN <<[year |-> y, month |-> m, day |-> d]>> ELSE <<>>
    ELSE <<>>

\* (\d{1,2}) at p: the number of digits taken.  Two digits are taken when
\* two are there; what follows the group never starts with a digit, so the
\* engine's retry with one digit cannot succeed.
DayLen(s, p) ==
    IF DigitsAt(s, p, 2) THEN 2 ELSE IF DigitsAt(s, p, 1) THEN 1 ELSE 0

\* (\d{1,2}),? (\d{4})\b  at p: <<day, year>> or <<>>
DayYearAt(s, p) ==
    LET n == DayLen(s, p)
        q == IF CharAt(s, p + n, ",") THEN p + n + 1 ELSE p + n
    IN IF /\ n > 0
          /\ CharAt(s, q, " ")
          /\ DigitsAt(s, q + 1, 4)
          /\ WordBoundary(s, q + 5)
       THEN <<NumberAt(s, p, n), NumberAt(s, q + 1, 4)>>
       ELSE <<>>

\* pattern 2  \b(?:Jan|..|Dec)[a-z]* (\d{1,2}),? (\d{4})\b  at p
MonthFirstAt(s, p) ==
    IF WordBoundary(s, p) /\ MonthAt(s, p) # 0
          /\ CharAt(s, LettersEnd(s, p + 3), " ")
    THEN DayYearAt(s, LettersEnd(s, p + 3) + 1)
    ELSE <<>>

\* pattern 3  \b(\d{1,2}) (?:Jan|..|Dec)[a-z]* (\d{4})\b  at p
DayFirstAt(s, p) ==
    LET n == DayLen(s, p)
        e == LettersEnd(s, p + n + 4)
    IN IF /\ WordBoundary(s, p)
          /\ n > 0
          /\ CharAt(s, p + n, " ")
          /\ MonthAt(s, p + n + 1) # 0
          /\ CharAt(s, e, " ")
          /\ DigitsAt(s, e + 1, 4)
          /\ WordBoundary(s, e + 5)
       THEN <<NumberAt(s, p, n), NumberAt(s, e + 1, 4)>>
       ELSE <<>>

\* pattern 4  \b(?:Mon|..|Sun)[a-z]* (?:Jan|..|Dec)[a-z]* (\d{1,2}),? (\d{4})\b
WeekdayFirstAt(s, p) ==
    LET e == LettersEnd(s, p + 3)
        f == LettersEnd(s, e + 4)
    IN IF /\ WordBoundary(s, p)
          /\ WeekdayAt(s, p)
          /\ CharAt(s, e, " ")
          /\ MonthAt(s, e + 1) # 0
          /\ CharAt(s, f, " ")
       THEN DayYearAt(s, f + 1)
       ELSE <<>>

\* re.search(r'\b(Jan|..|Dec)[a-z]*\b', line, re.IGNORECASE): the month of the
\* first word of the line that starts with a month name, or 0
LineMonth(s) ==
    LET hits == {p \in 1..Len(s) :
                    /\ WordBoundary(s, p)
                    /\ MonthAt(s, p) # 0
                    /\ WordBoundary(s, LettersEnd(s, p + 3))}
    IN IF hits = {} THEN 0 ELSE MonthAt(s, SetMin(hits))

\* the date a two-group match <<day, year>> appends: the month is looked up
\* in the line, not in the match
TwoGroupDate(s, dy) ==
    IF dy # <<>> /\ LineMonth(s) # 0 /\ ValidDate(dy[2], LineMonth(s), dy[1])
    THEN <<[year |-> dy[2], month |-> LineMonth(s), day |-> dy[1]]>>
    ELSE <<>>

\* the dates one pattern contributes for a line, in the order of re.finditer.
\* No two matches of one pattern overlap, so every position that matches is
\* a match finditer reports.
PatternDates(s, k) ==
    Join([p \in 1..Len(s) |->
             CASE k = 1 -> IsoAt(s, p)
               [] k = 2 -> TwoGroupDate(s, MonthFirstAt(s, p))
               [] k = 3 -> TwoGroupDate(s, DayFirstAt(s, p))
               [] k = 4 -> TwoGroupDate(s, WeekdayFirstAt(s, p))], <<>>)

\* for pattern in patterns: for match in re.finditer(pattern, line, ..)
LineDates(s) ==
    PatternDates(s, 1) \o PatternDates(s, 2) \o PatternDates(s, 3)
        \o PatternDates(s, 4)

\* for line in text.split('\n'): for pattern in patterns: ...
extract_dates(text) ==
    LET lines == Runs(text, [i \in 1..Len(text) |-> text[i] = "\n"])
    IN Join([i \in 1..Len(lines) |-> LineDates(lines[i])], <<>>)

DateLeq(a, b) ==
    \/ a.year < b.year
    \/ a.year = b.year /\ a.month < b.month
    \/ a.year = b.year /\ a.month = b.month /\ a.day <= b.day

\* n as a decimal string of w digits
RECURSIVE Decimal(_, _)
Decimal(n, w) ==
    IF w = 0 THEN <<>> ELSE Append(Decimal(n \div 10, w - 1), DigitChars[(n % 10) + 1])

\* newest_date.strftime("%Y-%m-%d")
FormatDate(d) ==
    Decimal(d.year, 4) \o <<"-">> \o Decimal(d.month, 2) \o <<"-">> \o Decimal(d.day, 2)

\* get_newest_date: (max(dates), its text), or (None, "") for no dates
get_newest_date(dates) ==
    IF dates = <<>> THEN [newest_date |-> NoDate, date_str |-> <<>>]
    ELSE LET newest == CHOOSE d \in Range(dates) : \A e \in Range(dates) : DateLeq(e, d)
         IN [newest_date |-> newest, date_str |-> FormatDate(newest)]

DaysBeforeMonth == <<0, 31, 59, 90, 120, 151, 181, 212, 243, 273, 304, 334>>

\* datetime.toordinal(): days since 0001-01-01, counted from 1
ToOrdinal(d) ==
    LET y == d.year - 1
    IN 365 * y + (y \div 4) - (y \div 100) + (y \div 400)
       + DaysBeforeMonth[d.month]
       + (IF d.month > 2 /\ IsLeap(d.year) THEN 1 ELSE 0)
       + d.day

\* days of the recency horizon
HorizonDays == 730

\* is_within_two_years with the horizon ending at the clock reading itself
is_within_two_years_Strict(date, clock) ==
    ToOrdinal(date) > clock.day - HorizonDays

\* is_within_two_years(date) at clock reading [day, sec] (day an ordinal, sec
\* the seconds since midnight):  date >= clock - timedelta(days=730)
is_within_two_years(date, clock) ==
    \/ ToOrdinal(date) > clock.day - HorizonDays
    \/ ToOrdinal(date) = clock.day - HorizonDays /\ clock.sec = 0

-----------------------------------------------------------------------------
(* process_json_files *)

IGI == "Incident General Information"
SUMMARY == "Summary"
ROOT == "Root Cause"

\* the order in which sums over the sections of a document are written down
SectionOrder == <<IGI, SUMMARY, ROOT>>

\* A value of the sections mapping: a string (t = "str", its text in s), a
\* falsy value that is no string such as null (t = "null"), or a truthy value
\* that is no string such as a number (t = "num").
Str(chars) == [t |-> "str", s |-> chars]
NullValue == [t |-> "null", s |-> <<>>]
NumValue == [t |-> "num", s |-> <<>>]

\* sections.get(name, "")
SectionGet(sections, name) ==
    IF name \in DOMAIN sections THEN sections[name] ELSE Str(<<>>)

\* search_text_in_section raises for a truthy value that is no string: it
\* passes the guard and clean_text hands it to re.sub (TypeError)
SearchRaises(sections) == \E n \in DOMAIN sections : sections[n].t = "num"

\* extract_dates raises for a value that is no string: it has no split
DatesRaise(sections) ==
    \E n \in {IGI, SUMMARY} : SectionGet(sections, n).t # "str"

\* section_matches after the loop over sections.items(): the context of
\* every section the query was found in
SectionMatches(sections, query) ==
    [n \in {m \in DOMAIN sections :
               /\ sections[m].t = "str"
               /\ search_text_in_section(sections[m].s, query).found} |->
        search_text_in_section(sections[n].s, query).context]

\* the values of a section_matches mapping, as a sequence
MatchedValues(section_matches) ==
    LET names == SelectSeq(SectionOrder, LAMBDA n : n \in DOMAIN section_matches)
    IN [i \in 1..Len(names) |-> section_matches[names[i]]]

\* max(calculate_text_quality_score(text) for text in section_matches.values())
MatchQuality(section_matches) ==
    SetMax({calculate_text_quality_score(section_matches[n]) :
               n \in DOMAIN section_matches})

\* sum(len(clean_text(text).split()) for text in section_matches.values())
MatchWordCount(section_matches) ==
    LET texts == MatchedValues(section_matches)
    IN SumSeq([i \in 1..Len(texts) |-> Len(Split(clean_text(texts[i])))])

\* The body of the file loop for a loaded dict with a sections mapping, up to
\* the clock reading: what it raises, finds and computes.
ScanSections(sections, query) ==
    IF SearchRaises(sections)
    THEN [raises |-> TRUE, found |-> FALSE, section_matches |-> <<>>,
          newest |-> get_newest_date(<<>>), quality_score |-> 0, word_count |-> 0]
    ELSE LET section_matches == SectionMatches(sections, query)
             found == DOMAIN section_matches # {}
         IN IF ~found
            THEN [raises |-> FALSE, found |-> FALSE, section_matches |-> <<>>,
                  newest |-> get_newest_date(<<>>), quality_score |-> 0,
                  word_count |-> 0]
            ELSE IF DatesRaise(sections)
            THEN [raises |-> TRUE, found |-> TRUE, section_matches |-> <<>>,
                  newest |-> get_newest_date(<<>>), quality_score |-> 0,
                  word_count |-> 0]
            ELSE [raises |-> FALSE, found |-> TRUE,
                  section_matches |-> section_matches,
                  newest |-> get_newest_date(
                               extract_dates(SectionGet(sections, IGI).s)
                               \o extract_dates(SectionGet(sections, SUMMARY).s)),
                  quality_score |-> MatchQuality(section_matches),
                  word_count |-> MatchWordCount(section_matches)]

-----------------------------------------------------------------------------
(* select_best_documents *)

\* A match is the tuple (filename, date_str, section_matches, quality_score,
\* word_count) as a record.  A file name is the position of the file in the
\* directory listing.

\* where ms[i] lands under a sort by quality that lets later ties come first
RankReversedTies(ms, i) ==
    Cardinality({j \in 1..Len(ms) : ms[j].quality_score > ms[i].quality_score})
    + Cardinality({j \in 1..Len(ms) :
                      j > i /\ ms[j].quality_score = ms[i].quality_score})
    + 1

\* where ms[i] lands in sorted(ms, key=quality_score, reverse=True): after the
\* elements of higher quality and after the earlier elements of equal quality
\* (the sort is stable, and reverse=True keeps the order of equal keys)
Rank(ms, i) ==
    Cardinality({j \in 1..Len(ms) : ms[j].quality_score > ms[i].quality_score})
    + Cardinality({j \in 1..Len(ms) :
                      j < i /\ ms[j].quality_score = ms[i].quality_score})
    + 1

\* sorted(matches, key=lambda x: x[3], reverse=True)
SortedByQuality(ms) ==
    [p \in 1..Len(ms) |-> ms[CHOOSE i \in 1..Len(ms) : Rank(ms, i) = p]]

\* (match[0], match[1], match[2])
Picked(match) ==
    [filename |-> match.filename, date_str |-> match.date_str,
     section_matches |-> match.section_matches]

SelectStart ==
    /\ pc = "select"
    /\ sorted_matches' = SortedByQuality(matches)
    /\ selected' = <<>>
    /\ total_words' = 0
    /\ sel_i' = 1
    /\ pc' = "select_loop"
    /\ UNCHANGED <<argv, nfiles, idx, data, now, search_text, matches,
                   max_words, exit_code, out, section_text, result>>

\* SelectStep with the budget tested before the candidate is added
SelectStep_TestBeforeAdding ==
    /\ pc = "select_loop"
    /\ sel_i <= Len(sorted_matches)
    /\ LET match == sorted_matches[sel_i]
       IN IF total_words <= max_words
          THEN /\ selected' = Append(selected, Picked(match))
               /\ total_words' = total_words + match.word_count
          ELSE UNCHANGED <<selected, total_words>>
    /\ sel_i' = sel_i + 1
    /\ UNCHANGED <<pc, argv, nfiles, idx, data, now, search_text, matches,
                   max_words, sorted_matches, exit_code, out, section_text,
                   result>>

\* SelectStep with the loop left at the first candidate that does not fit
SelectStep_BreakOnReject ==
    /\ pc = "select_loop"
    /\ sel_i <= Len(sorted_matches)
    /\ LET match == sorted_matches[sel_i]
       IN IF total_words + match.word_count <= max_words
          THEN /\ selected' = Append(selected, Picked(match))
               /\ total_words' = total_words + match.word_count
               /\ sel_i' = sel_i + 1
          ELSE /\ UNCHANGED <<selected, total_words>>
               /\ sel_i' = Len(sorted_matches) + 1
    /\ UNCHANGED <<pc, argv, nfiles, idx, data, now, search_text, matches,
                   max_words, sorted_matches, exit_code, out, section_text,
                   result>>

\* one iteration of  for match in sorted_matches
SelectStep ==
    /\ pc = "select_loop"
    /\ sel_i <= Len(sorted_matches)
    /\ LET match == sorted_matches[sel_i]
       IN IF total_words + match.word_count <= max_words
          THEN /\ selected' = Append(selected, Picked(match))
               /\ total_words' = total_words + match.word_count
          ELSE UNCHANGED <<selected, total_words>>
    /\ sel_i' = sel_i + 1
    /\ UNCHANGED <<pc, argv, nfiles, idx, data, now, search_text, matches,
                   max_words, sorted_matches, exit_code, out, section_text,
                   result>>

\* the loop is exhausted: return selected
SelectReturn ==
    /\ pc = "select_loop"
    /\ sel_i > Len(sorted_matches)
    /\ pc' = "select_ret"
    /\ UNCHANGED <<argv, nfiles, idx, data, now, search_text, matches,
                   max_words, sorted_matches, sel_i, selected, total_words,
                   exit_code, out, section_text, result>>

-----------------------------------------------------------------------------
(* Input families *)

\* all strings over an alphabet of length at most n
StringsUpTo(alphabet, n) == UNION {[1..k -> alphabet] : k \in 0..n}

\* n copies of a piece
Rep(piece, n) ==
    [i \in 1..(n * Len(piece)) |-> piece[((i - 1) % Len(piece)) + 1]]

\* longest section core and longest query of the search inputs
MaxCoreLen == 3
MaxQueryLen == 3

\* filler words put before and after a core: none, exactly a window, one more.
\* The filler word "ab" holds the query letters as substrings only.
PadCounts == {0, ContextWindow, ContextWindow + 1}

SearchSections ==
    {Rep(<<"a", "b", " ">>, pre) \o core \o Rep(<<" ", "a", "b">>, post) :
        pre \in PadCounts, post \in PadCounts,
        core \in StringsUpTo({"a", "B", "\n"}, MaxCoreLen)}

SearchQueries == StringsUpTo({"a", "b", " "}, MaxQueryLen)

\* the pieces quality texts are built from, and how many pieces a text has
LongRun == Rep(<<"x", " ">>, 25)

QualityPieces ==
    {<<"a">>, <<" ">>, <<".", " ">>, <<"!", "?">>, <<"a", "w", "s">>,
     <<"M","o","n","i","t","o","r","i","n","g">>}

MaxPieces == 3

RECURSIVE Concats(_, _)
Concats(pieces, n) ==
    IF n = 0 THEN {<<>>}
    ELSE LET shorter == Concats(pieces, n - 1)
         IN shorter \cup {p \o t : p \in pieces, t \in shorter}

\* texts of up to MaxPieces short pieces, alone or followed by a long sentence
QualityTexts ==
    {t \o tail : t \in Concats(QualityPieces, MaxPieces), tail \in {<<>>, LongRun}}

\* pieces of dated text: the four forms extract_dates knows, an ISO date and
\* a month-name date of a day no month has, a word and a line break
DatePieces ==
    {<<"J","a","n"," ","5",","," ","2","0","2","4"," ">>,
     <<"7"," ","F","e","b"," ","2","0","2","4"," ">>,
     <<"M","o","n"," ","M","a","r"," ","4",","," ","2","0","2","4"," ">>,
     <<"2","0","2","4","-","0","4","-","0","9"," ">>,
     <<"2","0","2","5","-","0","2","-","3","0"," ">>,
     <<"F","e","b"," ","3","0",","," ","2","0","2","4"," ">>,
     <<"o","n"," ">>,
     <<"\n">>}

MaxDatePieces == 3

\* texts of up to MaxDatePieces pieces
DateTexts == Concats(DatePieces, MaxDatePieces)

\* pieces of marked-up text: a whole marker, the two halves of a colour code
\* that a removed marker between them brings together, the marker's tail, a
\* word, a blank and a line break
CleanPieces ==
    {<<"#","1","2","3","4","5","f"," ","\n","I","N","L","I","N","E">>,
     <<"#","a","b","c">>,
     <<"d","e","f">>,
     <<"\n","I","N","L","I","N","E">>,
     <<"a">>,
     <<" ">>,
     <<"\n">>}

MaxCleanPieces == 4

\* texts of up to MaxCleanPieces pieces
CleanTexts == Concats(CleanPieces, MaxCleanPieces)

\* candidate lists of the selector: how many candidates, how many quality
\* levels above the lowest, the largest word count and the largest budget
MaxMatches == 3
MaxQualityLevel == 1
MaxWordCount == 2
MaxBudget == 3

Candidates(n) ==
    [1..n -> [quality_score : {100 * q : q \in 0..MaxQualityLevel},
              word_count : 0..MaxWordCount]]

\* the i-th candidate of a list carries the file name i
CandidateLists ==
    UNION {{[i \in 1..n |->
                [filename |-> i, date_str |-> <<>>, section_matches |-> <<>>,
                 quality_score |-> c[i].quality_score,
                 word_count |-> c[i].word_count]] : c \in Candidates(n)} :
           n \in 0..MaxMatches}

\* the corpus entries a scan may meet, the queries and the clock readings
FillerWords == Rep(<<"o", "k", " ">>, ContextWindow + 1)

\* a section whose match has more than a window of words on each side
LongSection == FillerWords \o <<"D", "b", " ">> \o FillerWords \o <<"e", "n", "d", ".">>

IgiTexts == {<<"D","a","t","e",":"," ","2","0","2","4","-","1","1","-","0","3">>,
             <<"d","b"," ","N","o","v"," ","4",","," ","2","0","2","4">>}

SummaryTexts == {<<"2","0","2","4","-","1","1","-","0","4"," ","d","b"," ","d","o","w","n",".">>,
                 <<"O","n"," ","2","0","2","5","-","0","2","-","3","0">>}

Absent == [t |-> "absent", s |-> <<>>]

\* a sections mapping from the value, or Absent, chosen for each section
SectionsOf(igi, summary, root) ==
    LET chosen == [n \in {IGI, SUMMARY, ROOT} |->
                      IF n = IGI THEN igi ELSE IF n = SUMMARY THEN summary ELSE root]
    IN [n \in {m \in {IGI, SUMMARY, ROOT} : chosen[m] # Absent} |-> chosen[n]]

DocSections ==
    {SectionsOf(igi, summary, root) :
        igi \in {Absent} \cup {Str(t) : t \in IgiTexts},
        summary \in {Absent, NullValue} \cup {Str(t) : t \in SummaryTexts},
        root \in {Absent, NumValue, Str(LongSection)}}

\* An entry of the directory listing: what opening and loading it gives.
\*   unreadable:  open raises FileNotFoundError or PermissionError
\*   unparsable:  json.load raises JSONDecodeError
\*   undecodable: reading raises UnicodeDecodeError (bytes that are no UTF-8)
\*   not_dict:    the JSON value is no object
\*   no_sections: an object without the key 'sections'
\*   sections_not_mapping: 'sections' holds a list, string, number or null
\*   doc:         'sections' holds an object
Entries ==
    {[kind |-> k, sections |-> <<>>] :
        k \in {"unreadable", "unparsable", "undecodable", "not_dict",
               "no_sections", "sections_not_mapping"}}
    \cup {[kind |-> "doc", sections |-> d] : d \in DocSections}

Queries == {<<"d", "b">>, <<"z", "z">>}

\* sys.argv: the script name, then the arguments
Argvs ==
    {<<"search_root_cause.py">>}
    \cup {<<"search_root_cause.py", q>> : q \in Queries}
    \cup {<<"search_root_cause.py", q, q>> : q \in Queries}

\* clock readings around the horizon of the documents' dates
Clocks ==
    {[day |-> ToOrdinal([year |-> 2026, month |-> 11, day |-> 3]) + d, sec |-> sec] :
        d \in {0, 1}, sec \in {0, 43200}}

ClockLeq(a, b) == a.day < b.day \/ (a.day = b.day /\ a.sec <= b.sec)

\* most *.json entries a directory listing holds
MaxFiles == 2

-----------------------------------------------------------------------------
(* The function calls checked on their own *)

NoResult == [none |-> TRUE]

Idle ==
    /\ argv = <<>>
    /\ nfiles = 0
    /\ idx = 0
    /\ data = NoResult
    /\ now = NoResult
    /\ matches = <<>>
    /\ max_words = 0
    /\ sorted_matches = <<>>
    /\ sel_i = 0
    /\ selected = <<>>
    /\ total_words = 0
    /\ exit_code = -1
    /\ out = <<>>

SearchInit ==
    /\ pc = "search_call"
    /\ section_text \in SearchSections
    /\ search_text \in SearchQueries
    /\ result = NoResult
    /\ Idle

\* one call search_text_in_section(section_text, search_text)
SearchCall ==
    /\ pc = "search_call"
    /\ result' = search_text_in_section(section_text, search_text)
    /\ pc' = "search_ret"
    /\ UNCHANGED <<argv, nfiles, idx, data, now, search_text, matches,
                   max_words, sorted_matches, sel_i, selected, total_words,
                   exit_code, out, section_text>>

SearchNext == SearchCall

SpecSearch == SearchInit /\ [][SearchNext]_vars

QualityInit ==
    /\ pc = "quality_call"
    /\ section_text \in QualityTexts
    /\ search_text = <<>>
    /\ result = NoResult
    /\ Idle

\* one call calculate_text_quality_score(section_text)
QualityCall ==
    /\ pc = "quality_call"
    /\ result' = calculate_text_quality_score(section_text)
    /\ pc' = "quality_ret"
    /\ UNCHANGED <<argv, nfiles, idx, data, now, search_text, matches,
                   max_words, sorted_matches, sel_i, selected, total_words,
                   exit_code, out, section_text>>

QualityNext == QualityCall

SpecQuality == QualityInit /\ [][QualityNext]_vars

CleanInit ==
    /\ pc = "clean_call"
    /\ section_text \in CleanTexts
    /\ search_text = <<>>
    /\ result = NoResult
    /\ Idle

\* one call clean_text(section_text)
CleanCall ==
    /\ pc = "clean_call"
    /\ result' = clean_text(section_text)
    /\ pc' = "clean_ret"
    /\ UNCHANGED <<argv, nfiles, idx, data, now, search_text, matches,
                   max_words, sorted_matches, sel_i, selected, total_words,
                   exit_code, out, section_text>>

CleanNext == CleanCall

SpecClean == CleanInit /\ [][CleanNext]_vars

DatesInit ==
    /\ pc = "dates_call"
    /\ section_text \in DateTexts
    /\ search_text = <<>>
    /\ result = NoResult
    /\ Idle

\* one call extract_dates(section_text)
DatesCall ==
    /\ pc = "dates_call"
    /\ result' = extract_dates(section_text)
    /\ pc' = "dates_ret"
    /\ UNCHANGED <<argv, nfiles, idx, data, now, search_text, matches,
                   max_words, sorted_matches, sel_i, selected, total_words,
                   exit_code, out, section_text>>

DatesNext == DatesCall

SpecDates == DatesInit /\ [][DatesNext]_vars

SelectInit ==
    /\ pc = "select"
    /\ matches \in CandidateLists
    /\ max_words \in 0..MaxBudget
    /\ argv = <<>>
    /\ nfiles = 0
    /\ idx = 0
    /\ data = NoResult
    /\ now = NoResult
    /\ search_text = <<>>
    /\ sorted_matches = <<>>
    /\ sel_i = 0
    /\ selected = <<>>
    /\ total_words = 0
    /\ exit_code = -1
    /\ out = <<>>
    /\ section_text = <<>>
    /\ result = NoResult

SelectNext == SelectStart \/ SelectStep \/ SelectReturn

SpecSelect == SelectInit /\ [][SelectNext]_vars

-----------------------------------------------------------------------------
(* Claims about search_text_in_section, checked under SpecSearch *)

\* the words of a normalized, case-folded string
FoldedWords(s) == Split(Lower(clean_text(s)))

\* the 0-based positions where the words q occur as a run of whole words of w
AlignedAt(w, q) ==
    {i \in 0..(Len(w) - Len(q)) : \A j \in 1..Len(q) : w[i + j] = q[j]}

\* C8: empty section text or empty query (the empty string, or empty once
\* normalized) always yields no match: the call returns (False, "").
C8_EmptyYieldsNoMatch ==
    (/\ pc = "search_ret"
     /\ \/ clean_text(section_text) = <<>>
        \/ clean_text(search_text) = <<>>)
    => result = NoMatch

\* C10: for a non-empty section text and query, a match is reported exactly
\* when the query's folded words occur as a contiguous run of whole words of
\* the folded section; the context is then the words from max(0, i-10) to
\* min(n, i+k+10) around the first such position i, wrapped in "...".
C10_WordAlignedMatchAndWindow ==
    (pc = "search_ret" /\ section_text # <<>> /\ search_text # <<>>) =>
        LET w == FoldedWords(section_text)
            q == FoldedWords(search_text)
            at == AlignedAt(w, q)
        IN /\ result.found <=> (at # {})
           /\ ~result.found => result.context = <<>>
           /\ result.found =>
                LET i == SetMin(at)
                    lo == Max2(0, i - ContextWindow)
                    hi == Min2(Len(w), i + Len(q) + ContextWindow)
                    kept == [j \in 1..(hi - lo) |-> w[lo + j]]
                IN /\ result.context = Ellipsis \o Join(kept, <<" ">>) \o Ellipsis
                   /\ i - lo <= ContextWindow
                   /\ hi - (i + Len(q)) <= ContextWindow

\* C10 witness: a match whose phrase has more than a window of words on each
\* side, found after an earlier word that only contains the query's first
\* word as a substring.
C10_Witness ==
    /\ pc = "search_ret"
    /\ result.found
    /\ LET w == FoldedWords(section_text)
           q == FoldedWords(search_text)
       IN /\ Len(q) >= 1
          /\ AlignedAt(w, q) # {}
          /\ LET i == SetMin(AlignedAt(w, q))
             IN /\ i > ContextWindow
                /\ Len(w) - (i + Len(q)) > ContextWindow
                /\ \E p \in 1..i : IsSubstring(q[1], w[p]) /\ w[p] # q[1]

-----------------------------------------------------------------------------
(* Claims about calculate_text_quality_score, checked under SpecQuality *)

\* C9: the score is in [0, 1] (0..1000 thousandths) for every text, each of
\* the four weighted parts stays within its weight, and the score is 0 for
\* the empty string and for a text that yields no non-empty sentence.
C9_ScoreInUnitInterval ==
    pc = "quality_ret" =>
        LET text == clean_text(section_text)
            words == Split(text)
            sentences == Sentences(text)
        IN /\ result >= 0 /\ result <= 1000
           /\ SentenceLengthPart(sentences) \in 0..300
           /\ WordLengthPart(words) \in 0..200
           /\ InfoDensityPart(words) \in 0..300
           /\ TechTermPart(words) \in 0..200
           /\ section_text = <<>> => result = 0
           /\ (\A i \in 1..Len(text) : text[i] \in {" ", ".", "!", "?"})
                => result = 0

\* C9 witness: a scored text of two or more sentences in which more than one
\* word in five is a technical term, so that tech_term_ratio * 5 exceeds 1
\* and the cap decides that part.
C9_Witness ==
    /\ pc = "quality_ret"
    /\ LET text == clean_text(section_text)
           words == Split(text)
       IN /\ Len(Sentences(text)) >= 2
          /\ 5 * Cardinality({i \in 1..Len(words) :
                                Lower(words[i]) \in technical_terms}) > Len(words)
    /\ result > 0

-----------------------------------------------------------------------------
(* process_json_files and main as a state machine *)

\* ScanSections for every document and query, evaluated once
ScanTable ==
    [d \in DocSections |-> [q \in Queries |-> ScanSections(d, q)]]

Printed(msg, n, words) == [msg |-> msg, n |-> n, words |-> words]

\* budget of select_best_documents when main calls it
DefaultMaxWords == 24000

\* print_header, then the argument check of main
MainStart ==
    /\ pc = "main"
    /\ IF Len(argv) # 2
       THEN /\ out' = out \o <<Printed("header", 0, 0), Printed("usage", 0, 0)>>
            /\ exit_code' = 1
            /\ pc' = "exited"
            /\ UNCHANGED <<search_text, idx, matches>>
       ELSE /\ out' = Append(out, Printed("header", 0, 0))
            /\ search_text' = argv[2]
            /\ idx' = 1
            /\ matches' = <<>>
            /\ pc' = "scan"
            /\ UNCHANGED exit_code
    /\ UNCHANGED <<argv, nfiles, data, now, max_words, sorted_matches, sel_i,
                   selected, total_words, section_text, result>>

\* an exception nothing catches: the interpreter prints the traceback and
\* the process ends with status 1
Raise ==
    /\ pc' = "crashed"
    /\ exit_code' = 1
    /\ UNCHANGED <<idx, matches, now, out>>

Skip ==
    /\ idx' = idx + 1
    /\ UNCHANGED <<pc, matches, now, out, exit_code>>

\* one iteration of  for filename in json_files, for the entry it meets
ScanFile ==
    /\ pc = "scan"
    /\ idx <= nfiles
    /\ \E entry \in Entries :
        /\ data' = entry
        /\ IF entry.kind \in {"unreadable", "unparsable"}
           THEN /\ out' = Append(out, Printed("warning", idx, 0))
                /\ idx' = idx + 1
                /\ UNCHANGED <<pc, matches, now, exit_code>>
           ELSE IF entry.kind \in {"undecodable", "sections_not_mapping"}
           THEN Raise
           ELSE IF entry.kind \in {"not_dict", "no_sections"}
           THEN Skip
           ELSE \E r \in {ScanTable[entry.sections][search_text]} :
                   IF r.raises THEN Raise
                   ELSE IF ~r.found \/ r.newest.newest_date = NoDate THEN Skip
                   ELSE \E clock \in Clocks :
                          /\ ClockLeq(now, clock)
                          /\ now' = clock
                          /\ idx' = idx + 1
                          /\ IF is_within_two_years(r.newest.newest_date, clock)
                             THEN matches' = Append(matches,
                                      [filename |-> idx,
                                       date_str |-> r.newest.date_str,
                                       section_matches |-> r.section_matches,
                                       quality_score |-> r.quality_score,
                                       word_count |-> r.word_count])
                             ELSE UNCHANGED matches
                          /\ UNCHANGED <<pc, out, exit_code>>
    /\ UNCHANGED <<argv, nfiles, search_text, max_words, sorted_matches, sel_i,
                   selected, total_words, section_text, result>>

\* the file loop is exhausted: process_json_files returns matches
ScanReturn ==
    /\ pc = "scan"
    /\ idx > nfiles
    /\ pc' = "scanned"
    /\ UNCHANGED <<argv, nfiles, idx, data, now, search_text, matches,
                   max_words, sorted_matches, sel_i, selected, total_words,
                   exit_code, out, section_text, result>>

\* if not all_matches: print the message and return
MainNoMatches ==
    /\ pc = "scanned"
    /\ matches = <<>>
    /\ out' = Append(out, Printed("no_matches", 0, 0))
    /\ exit_code' = 0
    /\ pc' = "done"
    /\ UNCHANGED <<argv, nfiles, idx, data, now, search_text, matches,
                   max_words, sorted_matches, sel_i, selected, total_words,
                   section_text, result>>

\* selected_matches = select_best_documents(all_matches)
MainSelect ==
    /\ pc = "scanned"
    /\ matches # <<>>
    /\ max_words' = DefaultMaxWords
    /\ pc' = "select"
    /\ UNCHANGED <<argv, nfiles, idx, data, now, search_text, matches,
                   sorted_matches, sel_i, selected, total_words, exit_code,
                   out, section_text, result>>

\* the report of the selected documents, then main returns
MainReport ==
    /\ pc = "select_ret"
    /\ argv # <<>>
    /\ out' = Append(out,
          Printed("selected", Len(selected),
              SumSeq([i \in 1..Len(matches) |->
                         IF \E s \in 1..Len(selected) : selected[s] = Picked(matches[i])
                         THEN matches[i].word_count ELSE 0])))
    /\ exit_code' = 0
    /\ pc' = "done"
    /\ UNCHANGED <<argv, nfiles, idx, data, now, search_text, matches,
                   max_words, sorted_matches, sel_i, selected, total_words,
                   section_text, result>>

Init ==
    /\ pc = "main"
    /\ argv \in Argvs
    /\ nfiles \in 0..MaxFiles
    /\ now \in Clocks
    /\ idx = 0
    /\ data = NoResult
    /\ search_text = <<>>
    /\ matches = <<>>
    /\ max_words = 0
    /\ sorted_matches = <<>>
    /\ sel_i = 0
    /\ selected = <<>>
    /\ total_words = 0
    /\ exit_code = -1
    /\ out = <<>>
    /\ section_text = <<>>
    /\ result = NoResult

Next ==
    \/ MainStart
    \/ ScanFile
    \/ ScanReturn
    \/ MainNoMatches
    \/ MainSelect
    \/ SelectStart
    \/ SelectStep
    \/ SelectReturn
    \/ MainReport

Spec == Init /\ [][Next]_vars

-----------------------------------------------------------------------------
(* Claims about select_best_documents, checked under SpecSelect *)

InSelector == pc \in {"select_loop", "select_ret"}

\* the position in the input list of the candidate with a file name
InputIndex(f) == CHOOSE i \in 1..Len(matches) : matches[i].filename = f

IsSelected(match) == \E s \in 1..Len(selected) : selected[s].filename = match.filename

\* C1: with non-negative word counts and a non-negative budget, the running
\* total never exceeds the budget and is the sum of the word counts of the
\* documents selected so far; so the returned documents fit the budget.
C1_BudgetRespected ==
    InSelector =>
        /\ total_words <= max_words
        /\ total_words =
              SumSeq([s \in 1..Len(selected) |->
                         matches[InputIndex(selected[s].filename)].word_count])

\* C1 witness: a returned selection that fills the budget exactly while some
\* candidate was left out.
C1_Witness ==
    /\ pc = "select_ret"
    /\ max_words > 0
    /\ total_words = max_words
    /\ Len(selected) >= 2
    /\ Len(selected) < Len(matches)

\* the words taken by the candidates accepted before sorted position p
TakenBefore(p) ==
    SumSeq([r \in 1..(p - 1) |->
               IF IsSelected(sorted_matches[r])
               THEN sorted_matches[r].word_count ELSE 0])

\* C2: every candidate is evaluated, in sorted order, and is accepted exactly
\* when the running total before it plus its word count is within the budget;
\* a rejection does not end the loop.
C2_AcceptedIffFits ==
    InSelector =>
        /\ sel_i \in 1..(Len(sorted_matches) + 1)
        /\ pc = "select_ret" => sel_i = Len(sorted_matches) + 1
        /\ \A p \in 1..Len(sorted_matches) :
              IF p < sel_i
              THEN IsSelected(sorted_matches[p])
                     <=> (TakenBefore(p) + sorted_matches[p].word_count <= max_words)
              ELSE ~IsSelected(sorted_matches[p])

\* C2 witness: a returned selection in which a candidate was rejected and a
\* later candidate of the sorted list was accepted.
C2_Witness ==
    /\ pc = "select_ret"
    /\ \E p, r \in 1..Len(sorted_matches) :
          /\ p < r
          /\ ~IsSelected(sorted_matches[p])
          /\ IsSelected(sorted_matches[r])

\* C3: the returned list is ordered by quality_score descending, documents of
\* equal quality keep their input order, and the list holds only documents of
\* the input, each at most once.
C3_OrderedStableSubsequence ==
    pc = "select_ret" =>
        /\ \A s \in 1..Len(selected) :
              \E i \in 1..Len(matches) : selected[s] = Picked(matches[i])
        /\ \A s, t \in 1..Len(selected) :
              s < t =>
                LET i == InputIndex(selected[s].filename)
                    j == InputIndex(selected[t].filename)
                IN \/ matches[i].quality_score > matches[j].quality_score
                   \/ /\ matches[i].quality_score = matches[j].quality_score
                      /\ i < j

\* C3 witness: a returned selection holding two documents of equal quality
\* and a document of higher quality that came later in the input.
C3_Witness ==
    /\ pc = "select_ret"
    /\ \E s, t, u \in 1..Len(selected) :
          LET i == InputIndex(selected[s].filename)
              j == InputIndex(selected[t].filename)
              k == InputIndex(selected[u].filename)
          IN /\ i < j /\ j < k
             /\ matches[i].quality_score = matches[j].quality_score
             /\ matches[k].quality_score > matches[i].quality_score

-----------------------------------------------------------------------------
(* Claims about process_json_files and main, checked under Spec *)

\* a sections mapping of section name to text
WellFormed(sections) == \A n \in DOMAIN sections : sections[n].t = "str"

\* What a document and a query are by themselves, read off the full section
\* texts: the sections the query matches, the dates of the two dated
\* sections, the best quality score and the number of words of the matched
\* sections.  Evaluated once for every document and query.
DocFacts ==
    [d \in DocSections |-> [q \in Queries |->
        LET matched == {n \in DOMAIN d : search_text_in_section(d[n].s, q).found}
            names == SelectSeq(SectionOrder, LAMBDA n : n \in matched)
        IN [matched |-> matched,
            dates |-> Range(extract_dates(SectionGet(d, IGI).s))
                        \cup Range(extract_dates(SectionGet(d, SUMMARY).s)),
            full_quality |->
                SetMax({0} \cup {calculate_text_quality_score(d[n].s) : n \in matched}),
            full_words |->
                SumSeq([i \in 1..Len(names) |-> Len(Split(clean_text(d[names[i]].s)))])]]]

\* the last iteration of the file loop handled a well-formed document
ScannedDoc ==
    /\ pc \notin {"main", "exited", "crashed"}
    /\ data # NoResult
    /\ data.kind = "doc"
    /\ WellFormed(data.sections)

\* that document, file idx - 1, was appended to matches
Emitted == matches # <<>> /\ matches[Len(matches)].filename = idx - 1

LatestOf(dates) == CHOOSE d \in dates : \A e \in dates : ToOrdinal(e) <= ToOrdinal(d)

\* C4: a MatchResult is emitted for a well-formed document exactly when a
\* section matches the query, the dates extracted from its "Incident General
\* Information" and "Summary" sections are not none, and the latest of them is
\* not older than 730 days before the clock reading; the emitted date is that
\* latest date and the emitted section_matches is not empty.
C4_EmittedIffMatchedAndRecent ==
    ScannedDoc =>
        LET f == DocFacts[data.sections][search_text]
        IN /\ Emitted <=>
                /\ f.matched # {}
                /\ f.dates # {}
                /\ (ToOrdinal(LatestOf(f.dates)) - (now.day - 730)) * 86400 >= now.sec
           /\ Emitted =>
                /\ matches[Len(matches)].date_str = FormatDate(LatestOf(f.dates))
                /\ DOMAIN matches[Len(matches)].section_matches # {}

\* C4 witness: an emitted document whose latest date, the later of the dates
\* of its two dated sections, lies exactly 730 days before the clock reading.
C4_Witness ==
    /\ ScannedDoc
    /\ Emitted
    /\ LET f == DocFacts[data.sections][search_text]
       IN /\ Cardinality(f.dates) >= 2
          /\ ToOrdinal(LatestOf(f.dates)) = now.day - 730
          /\ now.sec = 0

\* C5: an emitted MatchResult carries the best quality score of the full raw
\* texts of the matched sections, and the number of words of their normalized
\* full texts.
C5_ScoredOnFullSectionText ==
    (ScannedDoc /\ Emitted) =>
        LET f == DocFacts[data.sections][search_text]
        IN /\ matches[Len(matches)].quality_score = f.full_quality
           /\ matches[Len(matches)].word_count = f.full_words

\* an entry that is unreadable, unparsable, no mapping, without 'sections',
\* or whose 'sections' is no mapping of section name to text
IsBadEntry(entry) ==
    \/ entry.kind # "doc"
    \/ ~WellFormed(entry.sections)

\* C6: an iteration of the file loop that meets a bad entry skips it: the
\* scan goes on with the next file and the results are those without it.
C6_BadEntrySkipped ==
    [][(pc = "scan" /\ idx <= nfiles /\ IsBadEntry(data'))
          => (pc' = "scan" /\ idx' = idx + 1 /\ matches' = matches)]_vars

HasPrinted(msg) == \E i \in 1..Len(out) : out[i].msg = msg

\* C7: the command exits with status 1 exactly when the number of arguments
\* is not one, after the usage message and without scanning; every other run
\* ends with status 0, and a run without matches performs no selection.
C7_ExitStatus ==
    /\ exit_code # -1 => (exit_code = 1 <=> Len(argv) # 2)
    /\ exit_code = 1 => (HasPrinted("usage") /\ idx = 0 /\ data = NoResult)
    /\ pc \in {"done", "exited", "crashed"} => exit_code \in {0, 1}
    /\ (pc = "done" /\ exit_code = 0) => Len(argv) = 2
    /\ HasPrinted("no_matches") =>
          (matches = <<>> /\ max_words = 0 /\ sel_i = 0 /\ selected = <<>>)

-----------------------------------------------------------------------------
(* Claims about extract_dates, checked under SpecDates *)

\* the date a substring writes: its own day, month and year, when that is a
\* day of the calendar
WrittenDate(y, m, d) ==
    IF ValidDate(y, m, d) THEN <<[year |-> y, month |-> m, day |-> d]>> ELSE <<>>

\* the date written by a match at p of the month-name form, of the day-first
\* form, of the weekday-prefixed form: the month is the month name inside
\* the match
WrittenMonthFirst(s, p) ==
    LET dy == MonthFirstAt(s, p)
    IN IF dy = <<>> THEN <<>> ELSE WrittenDate(dy[2], MonthAt(s, p), dy[1])

WrittenDayFirst(s, p) ==
    LET dy == DayFirstAt(s, p)
    IN IF dy = <<>> THEN <<>>
       ELSE WrittenDate(dy[2], MonthAt(s, p + DayLen(s, p) + 1), dy[1])

WrittenWeekdayFirst(s, p) ==
    LET dy == WeekdayFirstAt(s, p)
    IN IF dy = <<>> THEN <<>>
       ELSE WrittenDate(dy[2], MonthAt(s, LettersEnd(s, p + 3) + 1), dy[1])

\* the dates written in a line, form by form and match by match
WrittenLineDates(s) ==
    Join([p \in 1..Len(s) |-> IsoAt(s, p)], <<>>)
    \o Join([p \in 1..Len(s) |-> WrittenMonthFirst(s, p)], <<>>)
    \o Join([p \in 1..Len(s) |-> WrittenDayFirst(s, p)], <<>>)
    \o Join([p \in 1..Len(s) |-> WrittenWeekdayFirst(s, p)], <<>>)

WrittenDates(text) ==
    LET lines == Runs(text, [i \in 1..Len(text) |-> text[i] = "\n"])
    IN Join([i \in 1..Len(lines) |-> WrittenLineDates(lines[i])], <<>>)

\* C11: extract_dates returns, for every line and every match of a form, the
\* date written in the matched substring, with the day, month and year of
\* that substring also when the line holds another month name before it;
\* a match that is no day of the calendar is skipped and the others kept.
C11_DatesAsWritten ==
    pc = "dates_ret" => result = WrittenDates(section_text)

-----------------------------------------------------------------------------
(* Claims about clean_text, checked under SpecClean *)

\* C12: clean_text is idempotent, clean_text(clean_text(x)) = clean_text(x);
\* its output holds no line break, no two whitespace characters in a row and
\* no whitespace at either end, and clean_text of the empty text is empty.
C12_CleanTextIdempotent ==
    pc = "clean_ret" =>
        /\ clean_text(result) = result
        /\ \A i \in 1..Len(result) : result[i] # "\n"
        /\ \A i \in 1..(Len(result) - 1) : ~(IsSpace(result[i]) /\ IsSpace(result[i + 1]))
        /\ result # <<>> => (~IsSpace(result[1]) /\ ~IsSpace(result[Len(result)]))
        /\ section_text = <<>> => result = <<>>

\* C12 witness: a marker was removed from the text, and the output holds a
\* colour code followed by a blank and INLINE: a marker but for the line
\* break, which the second normalization has to leave alone.
C12_Witness ==
    /\ pc = "clean_ret"
    /\ RemoveMarkers(section_text) # section_text
    /\ \E i \in 1..Len(result) :
          /\ i + 7 <= Len(result)
          /\ result[i] = "#"
          /\ \A j \in 1..6 : IsHex(result[i + j])
          /\ result[i + 7] = " "
          /\ StartsWithAt(result, i + 8, INLINE_MARK)

=============================================================================
